---- MODULE Spec2Model ----
(***************************************************************************)
(* Model of ml_gym/blueprints/constructables.py: Requirement and its       *)
(* subscription resolution, and ComponentConstructable's memoised          *)
(* construct() with get_requirement() / has_requirement().                 *)
(***************************************************************************)
EXTENDS Integers, Sequences, FiniteSets, TLC

VARIABLES constructed, requirements, prevRet, last,
          fields, registry, threads, build

(***************************************************************************)
(* Bounds of the model.                                                    *)
(***************************************************************************)
MaxLen == 3         \* elements of a list / entries of a mapping
MaxSub == 2         \* selectors of a list subscription
MaxReads == 1       \* requirements one run of a producer resolves

Nodes == {"A", "B"}                 \* component identifiers
Elems == {"a", "b"}                 \* opaque container elements
Keys == {"x", "y", ""}              \* mapping keys
ReqNames == {"iterators", "foo"}    \* names a caller may ask for
WiredNames == {"iterators"}         \* names the wiring may use

SeqsUpTo(S, n) == UNION {[1..i -> S] : i \in 0..n}

(***************************************************************************)
(* Python values.  Every value is a record [k, v]: the tag k says what v   *)
(* holds.  A mapping keeps its entries in insertion order, as dict does.   *)
(***************************************************************************)
None == [k |-> "none", v |-> <<>>]
Scalar(x) == [k |-> "scalar", v |-> <<x>>]
Bool(b) == [k |-> "bool", v |-> <<b>>]
List(s) == [k |-> "list", v |-> s]
Map(s) == [k |-> "map", v |-> s]
NodeRef(n) == [k |-> "node", v |-> <<n>>]
Entry(key, val) == [key |-> key, val |-> val]

MapKeys(m) == {m.v[i].key : i \in 1..Len(m.v)}
MapGet(m, key) == (CHOOSE e \in {m.v[i] : i \in 1..Len(m.v)} : e.key = key).val

Lists == {List(s) : s \in SeqsUpTo(Elems, MaxLen)}
Maps ==
  {Map(s) : s \in {t \in SeqsUpTo({Entry(key, val) : key \in Keys, val \in Elems}, MaxLen) :
                     \A i, j \in 1..Len(t) : t[i].key = t[j].key => i = j}}
Scalars == {Scalar("0"), Scalar("7")}

(***************************************************************************)
(* Selectors and subscriptions.  Requirement.subscription is normally a    *)
(* list of selectors; a single selector that is not a list is kept as      *)
(* kind "one".                                                             *)
(***************************************************************************)
IntSel(i) == [t |-> "int", i |-> i, s |-> ""]
StrSel(s) == [t |-> "str", i |-> 0, s |-> s]
SubList(s) == [k |-> "list", v |-> s]
SubOne(sel) == [k |-> "one", v |-> <<sel>>]
NoSub == SubList(<<>>)

Requirement(components, subscription) ==
  [components |-> components, subscription |-> subscription]

(***************************************************************************)
(* The outcome of a call: a returned value or a raised exception.          *)
(***************************************************************************)
Ret(val) == [exc |-> "none", val |-> val]
Raise(e) == [exc |-> e, val |-> None]
Returned(r) == r.exc = "none"

(***************************************************************************)
(* Python's truth value of a subscription (the test `not self.subscription`*)
(* of get_subscription): an empty list, the integer 0 and the empty string *)
(* are false.                                                              *)
(***************************************************************************)
Truthy(sub) ==
  IF sub.k = "list" THEN Len(sub.v) > 0
  ELSE IF sub.v[1].t = "int" THEN sub.v[1].i # 0
  ELSE sub.v[1].s # ""

(***************************************************************************)
(* components[selector]: list indexing (negative indices count from the    *)
(* end), mapping lookup, and the errors Python raises for the rest.        *)
(***************************************************************************)
GetItem(c, sel) ==
  IF c.k = "list" THEN
    IF sel.t # "int" THEN Raise("TypeError")
    ELSE IF sel.i >= 0 /\ sel.i < Len(c.v) THEN Ret(Scalar(c.v[sel.i + 1]))
    ELSE IF sel.i < 0 /\ 0 - sel.i <= Len(c.v) THEN Ret(Scalar(c.v[Len(c.v) + sel.i + 1]))
    ELSE Raise("IndexError")
  ELSE IF c.k = "map" THEN
    IF sel.t = "str" /\ sel.s \in MapKeys(c) THEN Ret(Scalar(MapGet(c, sel.s)))
    ELSE Raise("KeyError")
  ELSE Raise("TypeError")

\* The selectors of s whose lookup in c raises, as positions of s.
Failing(c, s) == {i \in 1..Len(s) : ~Returned(GetItem(c, s[i]))}
FirstFailing(c, s) == CHOOSE i \in Failing(c, s) : \A j \in Failing(c, s) : i <= j

\* A variant that walks the container, not the subscription: the selected
\* elements come out in container order, each once.
ListComprehension_containerOrder(c, s) ==
  IF Failing(c, s) # {} THEN Raise(GetItem(c, s[FirstFailing(c, s)]).exc)
  ELSE LET pos == {i \in 1..Len(c.v) :
                     \E j \in 1..Len(s) : s[j].i = i - 1 \/ s[j].i = i - 1 - Len(c.v)}
           nth(k) == CHOOSE i \in pos : Cardinality({j \in pos : j < i}) = k - 1
       IN Ret(List([k \in 1..Cardinality(pos) |-> c.v[nth(k)]]))

\* [components[s] for s in subscription]
ListComprehension(c, s) ==
  IF Failing(c, s) # {} THEN Raise(GetItem(c, s[FirstFailing(c, s)]).exc)
  ELSE Ret(List([i \in 1..Len(s) |-> GetItem(c, s[i]).val.v[1]]))

\* {s: components[s] for s in subscription}: a key met again keeps its place.
RECURSIVE DictOf(_, _)
DictOf(c, s) ==
  IF s = <<>> THEN <<>>
  ELSE LET init == DictOf(c, SubSeq(s, 1, Len(s) - 1))
           key == s[Len(s)].s
       IN IF \E i \in 1..Len(init) : init[i].key = key THEN init
          ELSE Append(init, Entry(key, GetItem(c, s[Len(s)]).val.v[1]))

\* A variant that walks the container, not the subscription: the selected
\* entries keep the container's order.
DictComprehension_containerOrder(c, s) ==
  IF Failing(c, s) # {} THEN Raise(GetItem(c, s[FirstFailing(c, s)]).exc)
  ELSE Ret(Map(SelectSeq(c.v, LAMBDA e : \E j \in 1..Len(s) : s[j].s = e.key)))

DictComprehension(c, s) ==
  IF Failing(c, s) # {} THEN Raise(GetItem(c, s[FirstFailing(c, s)]).exc)
  ELSE Ret(Map(DictOf(c, s)))

(***************************************************************************)
(* Requirement.get_subscription.  A list subscription that matches neither *)
(* branch falls off the end of the function, which returns None.           *)
(***************************************************************************)
Narrow(c, sub) ==
  IF sub.k = "list" THEN
    IF sub.v[1].t = "int" /\ c.k = "list" THEN ListComprehension(c, sub.v)
    ELSE IF sub.v[1].t = "str" /\ c.k = "map" THEN DictComprehension(c, sub.v)
    ELSE Ret(None)
  ELSE GetItem(c, sub.v[1])

\* A variant without the early return: an empty subscription selects nothing.
get_subscription_selectNothing(req) ==
  IF ~Truthy(req.subscription) THEN
    IF req.components.k = "list" THEN Ret(List(<<>>))
    ELSE IF req.components.k = "map" THEN Ret(Map(<<>>))
    ELSE Ret(req.components)
  ELSE Narrow(req.components, req.subscription)

get_subscription(req) ==
  IF ~Truthy(req.subscription) THEN Ret(req.components)
  ELSE Narrow(req.components, req.subscription)

\* A variant that looks the name up with a default: an unknown name yields None.
get_requirement_default(reqs, name) ==
  IF name \in DOMAIN reqs THEN get_subscription(reqs[name]) ELSE Ret(None)

\* A variant that resolves through the upstream node: components that are a
\* node object are replaced by that node's cached output before narrowing.
get_requirement_deref(reqs, name) ==
  IF name \notin DOMAIN reqs THEN Raise("KeyError")
  ELSE IF reqs[name].components.k = "node"
  THEN get_subscription(Requirement(constructed[reqs[name].components.v[1]],
                                    reqs[name].subscription))
  ELSE get_subscription(reqs[name])

\* ComponentConstructable.get_requirement: requirements[name].get_subscription()
get_requirement(reqs, name) ==
  IF name \in DOMAIN reqs THEN get_subscription(reqs[name]) ELSE Raise("KeyError")

\* ComponentConstructable.has_requirement: name in requirements
has_requirement(reqs, name) == name \in DOMAIN reqs

(***************************************************************************)
(* The producer.  _construct_impl is abstract: a run resolves some of the  *)
(* node's requirements through get_requirement, in some order, and then    *)
(* returns an artifact or raises.  An exception of get_requirement is not  *)
(* caught by any producer of the module, so it ends the run.               *)
(***************************************************************************)
Reads == {s \in SeqsUpTo(ReqNames, MaxReads) : \A i, j \in 1..Len(s) : s[i] = s[j] => i = j}
ProducerVals ==
  {None, Scalar("0"), Bool(FALSE), List(<<>>), Map(<<>>),
   List(<<"a", "b">>), Map(<<Entry("x", "a"), Entry("y", "b")>>)}
ProducerOutcomes == {Raise("ConstructionError")} \cup {Ret(val) : val \in ProducerVals}

Resolved(reqs, reads) ==
  [i \in 1..Len(reads) |-> [name |-> reads[i], res |-> get_requirement(reqs, reads[i])]]
Raising(reqs, reads) == {i \in 1..Len(reads) : ~Returned(Resolved(reqs, reads)[i].res)}
FirstRaising(reqs, reads) ==
  CHOOSE i \in Raising(reqs, reads) : \A j \in Raising(reqs, reads) : i <= j

\* What one run of the producer receives and how it ends.
construct_impl(reqs, reads, out) ==
  IF Raising(reqs, reads) = {} THEN [recv |-> Resolved(reqs, reads), res |-> out]
  ELSE [recv |-> SubSeq(Resolved(reqs, reads), 1, FirstRaising(reqs, reads)),
        res |-> Resolved(reqs, reads)[FirstRaising(reqs, reads)].res]

(***************************************************************************)
(* State.                                                                  *)
(*   constructed[n]   ComponentConstructable.constructed of node n         *)
(*   requirements[n]  ComponentConstructable.requirements of node n        *)
(* and, to state properties of calls:                                      *)
(*   prevRet[n]  how the latest construct() call on n ended                *)
(*   last        the latest call: what it was, how it ended, whether the   *)
(*               producer ran, what the producer received, the state of    *)
(*               the node before the call                                  *)
(* The remaining variables are used by the specifications further down     *)
(* and stay as they are in Spec and SpecSub:                               *)
(*   fields[n]   the other dataclass fields of a node of a subclass        *)
(*   registry    a ClassRegistry: its classes and how often they were run  *)
(*   threads     the position of each thread inside construct()            *)
(*   build       the catalog: its wiring, its plan and its progress        *)
(***************************************************************************)
vars == <<constructed, requirements, prevRet, last, fields, registry, threads, build>>
ext == <<fields, registry, threads, build>>
Unused == <<>>

NoRet == Raise("NoCall")
Call(op, n, name, res, ran, recv) ==
  [op |-> op, node |-> n, name |-> name, res |-> res, ran |-> ran, recv |-> recv,
   prev |-> prevRet[n], before |-> constructed[n]]
NoCall ==
  [op |-> "none", node |-> "", name |-> "", res |-> Ret(None), ran |-> FALSE, recv |-> <<>>,
   prev |-> NoRet, before |-> None]

\* A variant that tests truth instead of identity with None: not self.constructed
IsAbsent_falsy(c) == c \in {None, Scalar("0"), Bool(FALSE), List(<<>>), Map(<<>>)}

\* A variant without the cache test: every call runs the producer.
IsAbsent_always(c) == c = c

\* The test of construct(): self.constructed is None
IsAbsent(c) == c = None
\* A node is BUILT when its cached output is present.
Built(n) == constructed[n] # None

InitNodes ==
  /\ constructed = [n \in Nodes |-> None]
  /\ prevRet = [n \in Nodes |-> NoRet]
  /\ last = NoCall

InitExt ==
  /\ fields = Unused
  /\ registry = Unused
  /\ threads = Unused
  /\ build = Unused

Init ==
  /\ InitNodes
  /\ InitExt
  /\ requirements = [n \in Nodes |-> <<>>]

(***************************************************************************)
(* Wiring: a Requirement is created and put under `name` in the node's     *)
(* requirements, before the node is first constructed.  Its components are *)
(* an upstream node object or what that node's construct() has cached.     *)
(* Nodes are declared in order: a node requires nodes declared before it.  *)
(***************************************************************************)
WireSubs == {NoSub, SubList(<<StrSel("x")>>), SubList(<<IntSel(0)>>)}
Upstream(n) == IF n = "B" THEN {"A"} ELSE {}

Wire(n, name, m, byRef, sub) ==
  /\ prevRet[n] = NoRet
  /\ name \notin DOMAIN requirements[n]
  /\ m \in Upstream(n)
  /\ requirements' =
       [requirements EXCEPT ![n] =
          [x \in DOMAIN requirements[n] \cup {name} |->
             IF x = name
             THEN Requirement(IF byRef THEN NodeRef(m) ELSE constructed[m], sub)
             ELSE requirements[n][x]]]
  /\ UNCHANGED <<constructed, prevRet, last>>

(***************************************************************************)
(* ComponentConstructable.construct                                        *)
(***************************************************************************)
\* The cached output is absent: the producer runs; `run` is what it
\* received and how it ended.  Its value is stored unless it raised.
construct_miss(n, run) ==
  /\ IsAbsent(constructed[n])
  /\ constructed' = IF Returned(run.res)
                     THEN [constructed EXCEPT ![n] = run.res.val]
                     ELSE constructed
  /\ last' = Call("construct", n, "", run.res, TRUE, run.recv)
  /\ prevRet' = [prevRet EXCEPT ![n] = run.res]
  /\ UNCHANGED requirements

\* The cached output is present: it is returned as it is.
construct_hit(n) ==
  /\ ~IsAbsent(constructed[n])
  /\ last' = Call("construct", n, "", Ret(constructed[n]), FALSE, <<>>)
  /\ prevRet' = [prevRet EXCEPT ![n] = Ret(constructed[n])]
  /\ UNCHANGED <<constructed, requirements>>

construct(n) ==
  \/ \E reads \in Reads, out \in ProducerOutcomes :
       construct_miss(n, construct_impl(requirements[n], reads, out))
  \/ construct_hit(n)

(***************************************************************************)
(* Calls of get_requirement and has_requirement from outside a producer.   *)
(***************************************************************************)
\* A variant that keeps what it resolved: the narrowed value replaces the
\* components of the requirement.
GetRequirement_caching(n, name) ==
  /\ last' = Call("get_requirement", n, name, get_requirement(requirements[n], name), FALSE, <<>>)
  /\ requirements' =
       IF name \in DOMAIN requirements[n] /\ Returned(get_requirement(requirements[n], name))
       THEN [requirements EXCEPT ![n][name].components = get_requirement(requirements[n], name).val]
       ELSE requirements
  /\ UNCHANGED <<constructed, prevRet>>

GetRequirement(n, name) ==
  /\ last' = Call("get_requirement", n, name, get_requirement(requirements[n], name), FALSE, <<>>)
  /\ UNCHANGED <<constructed, requirements, prevRet>>

HasRequirement(n, name) ==
  /\ last' = Call("has_requirement", n, name,
                  Ret(Bool(has_requirement(requirements[n], name))), FALSE, <<>>)
  /\ UNCHANGED <<constructed, requirements, prevRet>>

Next ==
  \/ \E n \in Nodes, name \in WiredNames, m \in Nodes, byRef \in BOOLEAN, sub \in WireSubs :
       Wire(n, name, m, byRef, sub) /\ UNCHANGED ext
  \/ \E n \in Nodes : construct(n) /\ UNCHANGED ext
  \/ \E n \in Nodes, name \in ReqNames : GetRequirement(n, name) /\ UNCHANGED ext
  \/ \E n \in Nodes, name \in ReqNames : HasRequirement(n, name) /\ UNCHANGED ext

Spec == Init /\ [][Next]_vars

(***************************************************************************)
(* Resolution as a function of its inputs: node A holds one requirement    *)
(* whose components and subscription are drawn from the bounded sets       *)
(* below, and get_requirement / has_requirement are called on it.          *)
(***************************************************************************)
Components == {None} \cup Scalars \cup Lists \cup Maps \cup {NodeRef("B")}
Selectors ==
  {IntSel(i) : i \in (0 - 1)..MaxLen} \cup {StrSel(s) : s \in Keys \cup {"z"}}
Subscriptions ==
  {SubList(s) : s \in SeqsUpTo(Selectors, MaxSub)} \cup {SubOne(sel) : sel \in Selectors}

InitSub ==
  /\ InitNodes
  /\ InitExt
  /\ \E c \in Components, sub \in Subscriptions :
       requirements = [n \in Nodes |->
                         IF n = "A" THEN [x \in WiredNames |-> Requirement(c, sub)] ELSE <<>>]

NextSub ==
  \/ \E n \in Nodes, name \in ReqNames : GetRequirement(n, name) /\ UNCHANGED ext
  \/ \E n \in Nodes, name \in ReqNames : HasRequirement(n, name) /\ UNCHANGED ext

SpecSub == InitSub /\ [][NextSub]_vars

(***************************************************************************)
(* The Node Catalog.  It declares the nodes of CatNodes, wires at most one *)
(* requirement ("iterators") per node to another declared node, plans an   *)
(* order that respects the wiring and drives construct() in that order.    *)
(* A requirement's components are the upstream node object, put there when *)
(* the graph is declared, or the return of the upstream node's construct(),*)
(* put there when the requiring node is scheduled.                         *)
(*   build.up[n], build.sub[n]  the wiring of n: upstream node, subscription*)
(*   build.out[n]    how the producer of n ends when its requirements      *)
(*                   resolve                                               *)
(*   build.phase     "declared", "building", "done" or "failed"            *)
(*   build.order, build.pos     the plan and the next node in it           *)
(*   build.fetched   the return of the upstream construct(), until wired   *)
(*   build.runs[n]   how often the producer of n was started               *)
(*   build.error, build.result  how build_all() ended                      *)
(***************************************************************************)
CatNodes == {"A", "B", "C"}
NoUp == "-"
MapXY == Map(<<Entry("x", "a"), Entry("y", "b")>>)
MapX == Map(<<Entry("x", "a")>>)
BuildOutcomes == {Ret(MapXY), Ret(None), Raise("ConstructionError")}
BuildSubs == {NoSub, SubList(<<StrSel("x")>>)}
Wirings == [CatNodes -> CatNodes \cup {NoUp}]

\* The orders in which the nodes can be scheduled: no node twice, a node
\* after the node it requires, and no further node can be added.
Schedulable(up, s, n) ==
  /\ \A i \in 1..Len(s) : s[i] # n
  /\ up[n] = NoUp \/ \E i \in 1..Len(s) : s[i] = up[n]
Orders(up) ==
  {s \in SeqsUpTo(CatNodes, Cardinality(CatNodes)) :
     /\ \A i \in 1..Len(s) : Schedulable(up, SubSeq(s, 1, i - 1), s[i])
     /\ \A n \in CatNodes : ~Schedulable(up, s, n)}
\* The traversal makes no progress before every node is scheduled.
Cyclic(up) == \A s \in Orders(up) : Len(s) < Cardinality(CatNodes)

InitBuild ==
  /\ constructed = [n \in CatNodes |-> None]
  /\ prevRet = [n \in CatNodes |-> NoRet]
  /\ last = NoCall
  /\ fields = Unused
  /\ registry = Unused
  /\ threads = Unused
  /\ \E up \in Wirings, sub \in [CatNodes -> BuildSubs],
        out \in [CatNodes -> BuildOutcomes], byRef \in BOOLEAN :
       /\ \A n \in CatNodes : up[n] = NoUp => sub[n] = NoSub
       /\ build = [up |-> up, sub |-> sub, out |-> out, byRef |-> byRef,
                   phase |-> "declared", order |-> <<>>, pos |-> 1, fetched |-> NoRet,
                   runs |-> [n \in CatNodes |-> 0], error |-> "", result |-> <<>>]
       /\ requirements =
            [n \in CatNodes |->
               IF byRef /\ up[n] # NoUp
               THEN [x \in WiredNames |-> Requirement(NodeRef(up[n]), sub[n])]
               ELSE <<>>]

\* A variant that starts with the nodes it can schedule and finds out at the
\* end that some were left.
Plan_lazy ==
  /\ build.phase = "declared"
  /\ \E order \in Orders(build.up) :
       build' = [build EXCEPT !.phase = "building", !.order = order]
  /\ UNCHANGED <<constructed, requirements, prevRet, last, fields, registry, threads>>

\* build_all() first plans the whole order; a wiring that allows none is a
\* graph-configuration error.
Plan ==
  /\ build.phase = "declared"
  /\ IF Cyclic(build.up)
     THEN build' = [build EXCEPT !.phase = "failed", !.error = "GraphConfigurationError"]
     ELSE \E order \in Orders(build.up) :
            build' = [build EXCEPT !.phase = "building", !.order = order]
  /\ UNCHANGED <<constructed, requirements, prevRet, last, fields, registry, threads>>

Scheduling == build.phase = "building" /\ build.pos <= Len(build.order)
Cur == build.order[build.pos]
\* The producers of the catalog read every requirement their node has.
ReadsOf(n) == IF has_requirement(requirements[n], "iterators") THEN <<"iterators">> ELSE <<>>
RunsAfter(m) == [build.runs EXCEPT ![m] = IF IsAbsent(constructed[m]) THEN @ + 1 ELSE @]

\* m.construct(), with the producer the catalog gave to m.
CatalogConstruct(m) ==
  \/ construct_miss(m, construct_impl(requirements[m], ReadsOf(m), build.out[m]))
  \/ construct_hit(m)

\* The node being scheduled requires m: the catalog asks m for its output.
Fetch ==
  /\ Scheduling
  /\ ~build.byRef
  /\ build.up[Cur] # NoUp
  /\ requirements[Cur] = <<>>
  /\ build.fetched = NoRet
  /\ CatalogConstruct(build.up[Cur])
  /\ build' = IF Returned(prevRet'[build.up[Cur]])
              THEN [build EXCEPT !.runs = RunsAfter(build.up[Cur]),
                                 !.fetched = prevRet'[build.up[Cur]]]
              ELSE [build EXCEPT !.runs = RunsAfter(build.up[Cur]),
                                 !.phase = "failed",
                                 !.error = prevRet'[build.up[Cur]].exc]
  /\ UNCHANGED <<fields, registry, threads>>

\* ... and makes the Requirement of the node from it.
WireNode ==
  /\ Scheduling
  /\ build.fetched # NoRet
  /\ requirements' =
       [requirements EXCEPT ![Cur] =
          [x \in WiredNames |-> Requirement(build.fetched.val, build.sub[Cur])]]
  /\ build' = [build EXCEPT !.fetched = NoRet]
  /\ UNCHANGED <<constructed, prevRet, last, fields, registry, threads>>

\* The node being scheduled is constructed; an exception ends build_all().
ConstructNode ==
  /\ Scheduling
  /\ build.up[Cur] = NoUp \/ requirements[Cur] # <<>>
  /\ CatalogConstruct(Cur)
  /\ build' = IF Returned(prevRet'[Cur])
              THEN [build EXCEPT !.runs = RunsAfter(Cur), !.pos = @ + 1]
              ELSE [build EXCEPT !.runs = RunsAfter(Cur),
                                 !.phase = "failed", !.error = prevRet'[Cur].exc]
  /\ UNCHANGED <<fields, registry, threads>>

\* Every node of the plan was constructed: build_all() returns the mapping
\* from node identifier to artifact.
Finish ==
  /\ build.phase = "building"
  /\ build.pos > Len(build.order)
  /\ build' = IF Len(build.order) = Cardinality(CatNodes)
              THEN [build EXCEPT !.phase = "done", !.result = constructed]
              ELSE [build EXCEPT !.phase = "failed", !.error = "GraphConfigurationError"]
  /\ UNCHANGED <<constructed, requirements, prevRet, last, fields, registry, threads>>

NextBuild ==
  \/ Plan
  \/ Fetch
  \/ WireNode
  \/ ConstructNode
  \/ Finish

SpecBuild == InitBuild /\ [][NextBuild]_vars
\* build_all() is one synchronous call: it goes on until it returns or raises.
SpecBuildFair == SpecBuild /\ WF_vars(NextBuild)

(***************************************************************************)
(* Two threads inside construct() of node A.  construct() takes no lock,   *)
(* so the threads interleave between its steps: the test of the cached     *)
(* output, the call of the producer, the store of its result and the read  *)
(* of the cached output for the return.                                    *)
(*   threads[t].pc     where thread t is: "test", "call", "store",         *)
(*                     "return" or "done"                                  *)
(*   threads[t].ran    whether t has called the producer                   *)
(*   threads[t].local  what the producer returned to t, until stored       *)
(*   threads[t].ret    how t's construct() ended                           *)
(***************************************************************************)
Threads == {"T1", "T2"}

InitThreads ==
  /\ InitNodes
  /\ requirements = [n \in Nodes |-> <<>>]
  /\ fields = Unused
  /\ registry = Unused
  /\ build = Unused
  /\ threads = [t \in Threads |-> [pc |-> "test", ran |-> FALSE, local |-> None, ret |-> NoRet]]

\* if self.constructed is None:
Test(t) ==
  /\ threads[t].pc = "test"
  /\ threads' = [threads EXCEPT ![t].pc = IF IsAbsent(constructed["A"]) THEN "call" ELSE "return"]
  /\ UNCHANGED <<constructed, requirements, prevRet, last, fields, registry, build>>

\* self._construct_impl(): returns an artifact or raises, which ends the call
Produce(t) ==
  /\ threads[t].pc = "call"
  /\ \E out \in ProducerOutcomes :
       threads' = [threads EXCEPT ![t] =
                     IF Returned(out)
                     THEN [pc |-> "store", ran |-> TRUE, local |-> out.val, ret |-> NoRet]
                     ELSE [pc |-> "done", ran |-> TRUE, local |-> None, ret |-> out]]
  /\ UNCHANGED <<constructed, requirements, prevRet, last, fields, registry, build>>

\* self.constructed = <the producer's result>
Store(t) ==
  /\ threads[t].pc = "store"
  /\ constructed' = [constructed EXCEPT !["A"] = threads[t].local]
  /\ threads' = [threads EXCEPT ![t].pc = "return"]
  /\ UNCHANGED <<requirements, prevRet, last, fields, registry, build>>

\* return self.constructed
Return(t) ==
  /\ threads[t].pc = "return"
  /\ threads' = [threads EXCEPT ![t].pc = "done", ![t].ret = Ret(constructed["A"])]
  /\ UNCHANGED <<constructed, requirements, prevRet, last, fields, registry, build>>

NextThreads ==
  \/ \E t \in Threads : Test(t)
  \/ \E t \in Threads : Produce(t)
  \/ \E t \in Threads : Store(t)
  \/ \E t \in Threads : Return(t)

SpecThreads == InitThreads /\ [][NextThreads]_vars

(***************************************************************************)
(* Registries.  A ClassRegistry maps string keys to constructors;          *)
(* add_class puts a constructor under a key and get_instance calls the     *)
(* constructor stored under a key, or fails with UnknownKey.  Node B is a  *)
(* TrainComponentConstructable: its producer resolves its two registry     *)
(* requirements and instantiates its loss function and its postprocessors  *)
(* from them.                                                              *)
(*   registry.store[r]  the key-to-constructor mapping of registry r       *)
(*   registry.made      the instances the latest call had constructed      *)
(*   fields["B"]        loss_fun_config and post_processors_config, each   *)
(*                      reduced to the key it asks for                     *)
(***************************************************************************)
Regs == {"loss", "post"}
RegKeys == {"LPLoss", "CrossEntropyLoss"}
AskKeys == RegKeys \cup {"DOES_NOT_EXIST"}
Ctors == {"get_lp_loss", "get_cross_entropy_loss"}
Reg(r) == [k |-> "registry", v |-> <<r>>]
Instance(ctor) == [k |-> "instance", v |-> <<ctor>>]
TrainComponent == [k |-> "TrainComponent", v |-> <<>>]
TrainReads == <<"prediction_postprocessing_registry", "loss_function_registry">>

\* ClassRegistry.add_class: an existing key is overwritten
add_class(store, key, ctor) ==
  [x \in DOMAIN store \cup {key} |-> IF x = key THEN ctor ELSE store[x]]

\* ClassRegistry.get_instance
get_instance(store, key) ==
  IF key \in DOMAIN store THEN Ret(Instance(store[key])) ELSE Raise("UnknownKey")

\* The instantiations a TrainComponent producer makes, in order: the loss
\* function, then one postprocessor per config.
Asks(post, loss, cfg) ==
  <<[reg |-> loss, key |-> cfg.loss_fun_config]>> \o
  [i \in 1..Len(cfg.post_processors_config) |->
     [reg |-> post, key |-> cfg.post_processors_config[i]]]
Instantiated(stores, asks) ==
  [i \in 1..Len(asks) |-> get_instance(stores[asks[i].reg], asks[i].key)]
Unknown(stores, asks) == {i \in 1..Len(asks) : ~Returned(Instantiated(stores, asks)[i])}
FirstUnknown(stores, asks) ==
  CHOOSE i \in Unknown(stores, asks) : \A j \in Unknown(stores, asks) : i <= j
Instances(outs) == [i \in 1..Len(outs) |-> outs[i].val]

\* A variant that catches the lookup error and goes on without the instance.
TrainComponent_construct_impl_lenient(reqs, cfg, stores) ==
  LET run == construct_impl(reqs, TrainReads, Ret(TrainComponent))
  IN IF ~Returned(run.res) THEN [recv |-> run.recv, res |-> run.res, made |-> <<>>]
     ELSE LET outs == Instantiated(stores, Asks(run.recv[1].res.val.v[1],
                                                run.recv[2].res.val.v[1], cfg))
          IN [recv |-> run.recv, res |-> run.res,
              made |-> Instances(SelectSeq(outs, Returned))]

\* TrainComponentConstructable._construct_impl
TrainComponent_construct_impl(reqs, cfg, stores) ==
  LET run == construct_impl(reqs, TrainReads, Ret(TrainComponent))
  IN IF ~Returned(run.res) THEN [recv |-> run.recv, res |-> run.res, made |-> <<>>]
     ELSE LET asks == Asks(run.recv[1].res.val.v[1], run.recv[2].res.val.v[1], cfg)
              outs == Instantiated(stores, asks)
          IN IF Unknown(stores, asks) = {}
             THEN [recv |-> run.recv, res |-> run.res, made |-> Instances(outs)]
             ELSE [recv |-> run.recv,
                   res |-> outs[FirstUnknown(stores, asks)],
                   made |-> Instances(SubSeq(outs, 1, FirstUnknown(stores, asks) - 1))]

InitReg ==
  /\ InitNodes
  /\ threads = Unused
  /\ build = Unused
  /\ registry = [store |-> [r \in Regs |-> <<>>], made |-> <<>>]
  /\ \E wired \in SUBSET {"prediction_postprocessing_registry", "loss_function_registry"},
        loss \in AskKeys, post \in SeqsUpTo(AskKeys, 1) :
       /\ requirements =
            [n \in Nodes |->
               IF n = "B"
               THEN [x \in wired |->
                       Requirement(IF x = "loss_function_registry" THEN Reg("loss") ELSE Reg("post"),
                                   NoSub)]
               ELSE <<>>]
       /\ fields = [n \in {"B"} |-> [loss_fun_config |-> loss, post_processors_config |-> post]]

AddClass(r, key, ctor) ==
  /\ registry' = [registry EXCEPT !.store[r] = add_class(@, key, ctor)]
  /\ UNCHANGED <<constructed, requirements, prevRet, last, fields, threads, build>>

GetInstance(r, key) ==
  /\ last' = [op |-> "get_instance", node |-> r, name |-> key,
              res |-> get_instance(registry.store[r], key), ran |-> FALSE, recv |-> <<>>,
              prev |-> NoRet, before |-> None]
  /\ registry' = [registry EXCEPT !.made = Instances(SelectSeq(<<last'.res>>, Returned))]
  /\ UNCHANGED <<constructed, requirements, prevRet, fields, threads, build>>

ConstructTrain ==
  /\ \/ LET run == TrainComponent_construct_impl(requirements["B"], fields["B"], registry.store)
        IN /\ construct_miss("B", run)
           /\ registry' = [registry EXCEPT !.made = run.made]
     \/ /\ construct_hit("B")
        /\ UNCHANGED registry
  /\ UNCHANGED <<fields, threads, build>>

NextReg ==
  \/ \E r \in Regs, key \in RegKeys, ctor \in Ctors : AddClass(r, key, ctor)
  \/ \E r \in Regs, key \in AskKeys : GetInstance(r, key)
  \/ ConstructTrain

SpecReg == InitReg /\ [][NextReg]_vars

(***************************************************************************)
(* Iterator transformers.  Node A is a FilteredLabelsIterator-,            *)
(* IteratorView-, MappedLabelsIterator- or FeatureEncodedIterator-         *)
(* Constructable: its producer resolves the requirement "iterators" to a   *)
(* mapping from split name to iterator and returns a mapping made from it. *)
(* The iterators the factory makes are opaque: a wrapped iterator is a new *)
(* object that differs from the one it wraps.                              *)
(*   fields["A"].kind               which of the four classes A is         *)
(*   fields["A"].applicable_splits  the split names of that field          *)
(***************************************************************************)
PassKinds == {"FilteredLabels", "IteratorView", "MappedLabels"}
Kinds == PassKinds \cup {"FeatureEncoded"}
Splits == Keys \cup {"z"}
WrapTable ==
  [FilteredLabels |-> [a |-> "filtered(a)", b |-> "filtered(b)"],
   IteratorView |-> [a |-> "view(a)", b |-> "view(b)"],
   MappedLabels |-> [a |-> "mapped(a)", b |-> "mapped(b)"],
   FeatureEncoded |-> [a |-> "encoded(a)", b |-> "encoded(b)"]]
\* ModelGymInformedIteratorFactory.get_..._iterator(identifier, iterator, ...)
Wrapped(kind, it) == WrapTable[kind][it]

\* A variant that keeps the applicable splits only.
WrapApplicable_dropOthers(kind, d, splits) ==
  Map(SelectSeq([i \in 1..Len(d.v) |-> Entry(d.v[i].key, Wrapped(kind, d.v[i].val))],
                LAMBDA e : e.key \in splits))

\* {name: wrap(iterator) if name in applicable_splits else iterator
\*  for name, iterator in dataset_iterators_dict.items()}
WrapApplicable(kind, d, splits) ==
  Map([i \in 1..Len(d.v) |->
         Entry(d.v[i].key,
               IF d.v[i].key \in splits THEN Wrapped(kind, d.v[i].val) ELSE d.v[i].val)])

\* ModelGymInformedIteratorFactory.get_feature_encoded_iterators: the
\* encoded iterators of the splits the factory encodes.
Encoded(d, keep) ==
  Map(SelectSeq([i \in 1..Len(d.v) |-> Entry(d.v[i].key, Wrapped("FeatureEncoded", d.v[i].val))],
                LAMBDA e : e.key \in keep))

\* A variant that passes the other splits through, as the transformers do.
KeepApplicable_passThrough(d, enc, splits) ==
  Map([i \in 1..Len(d.v) |->
         Entry(d.v[i].key,
               IF d.v[i].key \in splits /\ d.v[i].key \in MapKeys(enc)
               THEN MapGet(enc, d.v[i].key) ELSE d.v[i].val)])

\* {name: iterator for name, iterator in feature_encoded_iterators.items()
\*  if name in applicable_splits}
KeepApplicable(d, enc, splits) == Map(SelectSeq(enc.v, LAMBDA e : e.key \in splits))

\* _construct_impl of the four classes; `keep` is what the factory encodes.
Iterator_construct_impl(reqs, f, keep) ==
  LET run == construct_impl(reqs, <<"iterators">>, Ret(None))
      d == run.recv[1].res.val
  IN IF ~Returned(run.res) THEN run
     ELSE IF f.kind = "FeatureEncoded"
     THEN [recv |-> Append(run.recv, [name |-> "feature_encoded_iterators",
                                      res |-> Ret(Encoded(d, keep))]),
           res |-> Ret(KeepApplicable(d, Encoded(d, keep), f.applicable_splits))]
     ELSE [recv |-> run.recv,
           res |-> Ret(WrapApplicable(f.kind, d, f.applicable_splits))]

IterSubs == {NoSub, SubList(<<StrSel("x")>>), SubList(<<StrSel("y"), StrSel("x")>>)}

InitIter ==
  /\ InitNodes
  /\ registry = Unused
  /\ threads = Unused
  /\ build = Unused
  /\ \E kind \in Kinds, splits \in SUBSET Splits :
       fields = [n \in {"A"} |-> [kind |-> kind, applicable_splits |-> splits]]
  /\ \E c \in Maps, sub \in IterSubs :
       requirements = [n \in Nodes |->
                         IF n = "A" THEN [x \in WiredNames |-> Requirement(c, sub)] ELSE <<>>]

ConstructIter ==
  /\ \/ \E keep \in SUBSET Keys :
          construct_miss("A", Iterator_construct_impl(requirements["A"], fields["A"], keep))
     \/ construct_hit("A")
  /\ UNCHANGED <<fields, registry, threads, build>>

NextIter == ConstructIter

SpecIter == InitIter /\ [][NextIter]_vars

(***************************************************************************)
(*                              Properties                                 *)
(***************************************************************************)
IsConstruct == last.op = "construct"
IsGet == last.op = "get_requirement"
IsHas == last.op = "has_requirement"
\* The latest call was made on a requirement that is wired.
Wired == last.node \in Nodes /\ last.name \in DOMAIN requirements[last.node]
LastReq == requirements[last.node][last.name]
\* The latest call is a construct() that follows a construct() on the same node.
AfterReturn == IsConstruct /\ Returned(last.prev)
AfterFailure == IsConstruct /\ ~Returned(last.prev) /\ last.prev # NoRet

\* C1: Memoization.  A construct() call that returns normally after an
\* earlier construct() call on the same node returned normally (calls 2..N of
\* a sequence of normally returning calls) returns the value of the earlier
\* call and does not run the producer, so the producer ran once, in call 1.
C1_Memoization ==
  (AfterReturn /\ Returned(last.res)) => (last.res = last.prev /\ ~last.ran)

\* C2: Built versus falsy.  Before the first construct() a node is UNBUILT;
\* after a construct() call whose producer returned normally the node is
\* BUILT whatever the value, and a later construct() returns it without
\* running the producer again.
C2_BuiltWhateverValue ==
  /\ \A n \in Nodes : prevRet[n] = NoRet => ~Built(n)
  /\ \A n \in Nodes : Returned(prevRet[n]) => Built(n)
  /\ AfterReturn => ~last.ran

\* C3: Failure leaves the node unbuilt.  A construct() whose producer raises
\* ends with that error and leaves the cached output absent; the next
\* construct() on the node runs the producer again and, if it returns, the
\* node is BUILT with the value returned.
C3_FailureThenRetry ==
  /\ (IsConstruct /\ ~Returned(last.res)) =>
       (last.ran /\ last.before = None /\ ~Built(last.node)
        /\ prevRet[last.node] = last.res)
  /\ AfterFailure => last.ran
  /\ (AfterFailure /\ Returned(last.res)) =>
       (Built(last.node) /\ constructed[last.node] = last.res.val)

\* C4: BUILT is terminal.  No step (construct, get_requirement,
\* has_requirement on any node, or wiring) takes a BUILT node back to UNBUILT
\* or changes its cached artifact.
C4_BuiltIsTerminal ==
  [][\A n \in Nodes : Built(n) => constructed'[n] = constructed[n]]_vars

\* C4 witness: a construct() call on a node that was already BUILT.
C4_Witness == IsConstruct /\ last.before # None /\ Built(last.node)

(***************************************************************************)
(* Subscription kinds                                                      *)
(***************************************************************************)
AllInt(s) == \A i \in 1..Len(s) : s[i].t = "int"
AllStr(s) == \A i \in 1..Len(s) : s[i].t = "str"
NonEmptyList(sub) == sub.k = "list" /\ Len(sub.v) > 0
Mismatch(c, sub) ==
  /\ NonEmptyList(sub)
  /\ \/ AllInt(sub.v) /\ c.k = "map"
     \/ AllStr(sub.v) /\ c.k = "list"
     \/ (AllInt(sub.v) \/ AllStr(sub.v)) /\ c.k = "scalar"

\* C5: Type mismatch fails.  Resolving a non-empty list subscription whose
\* kind does not match the container (integers against a mapping, strings
\* against a sequence, any list against a scalar) raises; it returns no value.
C5_TypeMismatchFails ==
  (IsGet /\ Wired /\ Mismatch(LastReq.components, LastReq.subscription)) => ~Returned(last.res)

\* c[i] as Python indexes a list: from the end when i is negative.
At(s, i) == IF i >= 0 THEN s[i + 1] ELSE s[Len(s) + i + 1]
InRange(s, i) == 0 - Len(s) <= i /\ i < Len(s)
ListCase(c, sub) ==
  /\ c.k = "list" /\ NonEmptyList(sub) /\ AllInt(sub.v)
  /\ \A j \in 1..Len(sub.v) : InRange(c.v, sub.v[j].i)

\* C6: List subscription.  A non-empty list of in-range integer indices on a
\* sequence resolves to a sequence as long as the subscription whose j-th
\* element is the container's element at the j-th index.
C6_ListSubscription ==
  (IsGet /\ Wired /\ ListCase(LastReq.components, LastReq.subscription)) =>
    /\ Returned(last.res)
    /\ last.res.val.k = "list"
    /\ Len(last.res.val.v) = Len(LastReq.subscription.v)
    /\ \A j \in 1..Len(LastReq.subscription.v) :
         last.res.val.v[j] = At(LastReq.components.v, LastReq.subscription.v[j].i)

\* C6 witness: [a, a, b] with [2, 0] resolved to [b, a].
C6_Witness ==
  /\ IsGet /\ Wired
  /\ LastReq = Requirement(List(<<"a", "a", "b">>), SubList(<<IntSel(2), IntSel(0)>>))
  /\ last.res = Ret(List(<<"b", "a">>))

MapCase(c, sub) ==
  /\ c.k = "map" /\ NonEmptyList(sub) /\ AllStr(sub.v)
  /\ \A j \in 1..Len(sub.v) : sub.v[j].s \in MapKeys(c)
\* Position of the first selector of s that names key.
FirstAt(s, key) == CHOOSE i \in 1..Len(s) : s[i].s = key /\ \A j \in 1..(i - 1) : s[j].s # key

\* C7: Mapping subscription.  A non-empty list of present string keys on a
\* mapping resolves to a mapping with exactly those keys, each with the
\* container's value, inserted in the order the subscription first names them.
C7_MappingSubscription ==
  (IsGet /\ Wired /\ MapCase(LastReq.components, LastReq.subscription)) =>
    /\ Returned(last.res)
    /\ last.res.val.k = "map"
    /\ MapKeys(last.res.val) = {LastReq.subscription.v[j].s : j \in 1..Len(LastReq.subscription.v)}
    /\ \A i, j \in 1..Len(last.res.val.v) :
         /\ last.res.val.v[i].key = last.res.val.v[j].key => i = j
         /\ last.res.val.v[i].val = MapGet(LastReq.components, last.res.val.v[i].key)
         /\ i < j => FirstAt(LastReq.subscription.v, last.res.val.v[i].key)
                       < FirstAt(LastReq.subscription.v, last.res.val.v[j].key)

\* C7 witness: {x: a, "": a, y: b} with [y, x] resolved to {y: b, x: a}.
C7_Witness ==
  /\ IsGet /\ Wired
  /\ LastReq = Requirement(Map(<<Entry("x", "a"), Entry("", "a"), Entry("y", "b")>>),
                           SubList(<<StrSel("y"), StrSel("x")>>))
  /\ last.res = Ret(Map(<<Entry("y", "b"), Entry("x", "a")>>))

\* C8: Empty subscription is identity.  With an empty subscription a
\* requirement resolves to its components, whatever they are.
C8_EmptyIsIdentity ==
  (IsGet /\ Wired /\ LastReq.subscription = NoSub) => last.res = Ret(LastReq.components)

\* C8 witness: a non-empty mapping resolved under the empty subscription.
C8_Witness ==
  /\ IsGet /\ Wired /\ LastReq.subscription = NoSub
  /\ LastReq.components.k = "map" /\ Len(LastReq.components.v) = MaxLen

IsUnwiredCall(c) ==
  /\ c.op \in {"get_requirement", "has_requirement"}
  /\ c.name \notin DOMAIN requirements[c.node]

\* C9: Unknown requirement.  For a name that is not a key of the node's
\* requirements, get_requirement raises the lookup error (KeyError) and
\* returns no value, has_requirement returns False, and the call leaves the
\* requirements and the cached outputs as they were.
C9_UnknownRequirement ==
  /\ []((IsGet /\ ~Wired) => last.res = Raise("KeyError"))
  /\ []((IsHas /\ ~Wired) => last.res = Ret(Bool(FALSE)))
  /\ [][(last' # last /\ IsUnwiredCall(last'))
          => (constructed' = constructed /\ requirements' = requirements)]_vars

\* C9 witness: get_requirement("foo") raised on a BUILT node that has
\* another requirement wired.
C9_Witness ==
  /\ IsGet /\ ~Wired /\ last.res = Raise("KeyError")
  /\ Built(last.node) /\ requirements[last.node] # <<>>

\* The values the producer of the latest construct() received for wired names.
Received ==
  {i \in 1..Len(last.recv) : last.recv[i].name \in DOMAIN requirements[last.node]}
RecvReq(i) == requirements[last.node][last.recv[i].name]

Done == build.phase = "done"
Failed == build.phase = "failed"
\* Node A produces the mapping {x, y} and node B requires A with ["x"].
SharedUpstream ==
  /\ build.out["A"] = Ret(MapXY)
  /\ build.up["B"] = "A"
  /\ build.sub["B"] = SubList(<<StrSel("x")>>)
BuiltOnce ==
  /\ get_requirement(requirements["B"], "iterators") = Ret(MapX)
  /\ build.runs["A"] = 1
  /\ constructed["A"] = MapXY

C13_DependencyOrder ==
  /\ [](Done => /\ DOMAIN build.result = CatNodes
                /\ \A n \in CatNodes : /\ Built(n)
                                       /\ build.runs[n] = 1
                                       /\ build.result[n] = build.out[n].val)
  /\ [][\A n \in CatNodes :
          (build'.runs[n] > build.runs[n] /\ build.up[n] # NoUp) => Built(build.up[n])]_vars

\* C14: for a wiring with a requirement cycle build_all() ends with a
\* graph-configuration error; no producer has run and no node is BUILT.
C14_CycleDetection ==
  /\ [](Cyclic(build.up) =>
          /\ build.phase \in {"declared", "failed"}
          /\ Failed => build.error = "GraphConfigurationError"
          /\ \A n \in CatNodes : build.runs[n] = 0 /\ ~Built(n))
  /\ (Cyclic(build.up) ~> Failed)

\* C14 witness: B and C require each other, A requires nothing, and
\* build_all() has failed.
C14_Witness ==
  /\ Failed /\ build.error = "GraphConfigurationError"
  /\ build.up["A"] = NoUp /\ build.up["B"] = "C" /\ build.up["C"] = "B"

(***************************************************************************)
(*                 Properties of construct() under threads                 *)
(***************************************************************************)
Ran == {t \in Threads : threads[t].ran}
AllDone == \A t \in Threads : threads[t].pc = "done"

\* C12: when two threads perform a first-time construct() on the same
\* UNBUILT node, under every interleaving the producer is invoked at most
\* once and both calls return the same artifact.
C12_ComputeOnce ==
  /\ Cardinality(Ran) <= 1
  /\ AllDone => \A t, u \in Threads : threads[t].ret = threads[u].ret

(***************************************************************************)
(*                       Properties of registries                          *)
(***************************************************************************)
\* The producer of B resolves both registries and asks one of them for a
\* key it does not have.
UnknownLookup ==
  /\ DOMAIN requirements["B"] = {"prediction_postprocessing_registry", "loss_function_registry"}
  /\ Unknown(registry.store, Asks("post", "loss", fields["B"])) # {}

\* C15: instantiating a key that was never registered fails with UnknownKey,
\* invokes no constructor and leaves the key-to-constructor mapping as it
\* was; when the lookup happens inside a node's producer the error comes out
\* of construct() and the node stays UNBUILT.
C15_UnknownRegistryKey ==
  /\ [][(last' # last /\ last'.op = "get_instance"
          /\ last'.name \notin DOMAIN registry.store[last'.node])
         => /\ last'.res = Raise("UnknownKey")
            /\ registry'.made = <<>>
            /\ registry'.store = registry.store]_vars
  /\ [][(last' # last /\ last'.op = "construct" /\ last'.ran /\ UnknownLookup)
         => /\ last'.res = Raise("UnknownKey")
            /\ constructed'["B"] = None
            /\ registry'.store = registry.store]_vars

\* C15 witness: the producer of B asked the empty loss registry for
\* "DOES_NOT_EXIST"; construct() raised UnknownKey and B is UNBUILT.
C15_Witness ==
  /\ IsConstruct /\ last.node = "B" /\ last.ran
  /\ last.res = Raise("UnknownKey")
  /\ ~Built("B")
  /\ registry.store["loss"] = <<>>
  /\ fields["B"].loss_fun_config = "DOES_NOT_EXIST"
  /\ registry.made = <<>>

(***************************************************************************)
(*                    Further properties of resolution                     *)
(***************************************************************************)
\* C16: get_requirement, has_requirement and get_subscription leave the
\* cached output of every node and every requirement (its components, their
\* keys, elements and order, and its subscription) as they were, and the
\* same call made again returns an equal result.
C16_ResolutionHasNoSideEffects ==
  [][(last' # last /\ last'.op \in {"get_requirement", "has_requirement"})
      => /\ constructed' = constructed
         /\ requirements' = requirements
         /\ last'.res = IF last'.op = "get_requirement"
                        THEN get_requirement(requirements'[last'.node], last'.name)
                        ELSE Ret(Bool(has_requirement(requirements'[last'.node], last'.name)))]_vars

\* C16 witness: B resolved {x, y} under ["x"] to {x} while A is BUILT; the
\* requirement still holds {x, y} and ["x"].
C16_Witness ==
  /\ IsGet /\ Wired /\ last.node = "B"
  /\ LastReq = Requirement(MapXY, SubList(<<StrSel("x")>>))
  /\ last.res = Ret(MapX)
  /\ constructed["A"] = MapXY

\* The subscription of the latest call is one selector that is not a list
\* and that the components have an element for.
SingleSelector ==
  /\ IsGet /\ Wired
  /\ LastReq.subscription.k = "one"
  /\ Returned(GetItem(LastReq.components, LastReq.subscription.v[1]))

\* C17: with a subscription that is a single selector, not a list,
\* get_subscription returns the one element components[selector] for every
\* valid selector, index 0 and the key "" included.
C17_SingleElementSelection ==
  SingleSelector => last.res = GetItem(LastReq.components, LastReq.subscription.v[1])

(***************************************************************************)
(*                 Properties of the iterator transformers                 *)
(***************************************************************************)
\* The producer of A ran and returned an artifact.
Produced == IsConstruct /\ last.node = "A" /\ last.ran /\ Returned(last.res)
Input == last.recv[1].res.val
Artifact == last.res.val
FeatureEncodedIterators == last.recv[2].res.val

\* C18: the artifact of a FilteredLabels-, IteratorView- or MappedLabels-
\* IteratorConstructable has the keys of the resolved "iterators"
\* requirement; a split outside applicable_splits maps to the input
\* iterator itself, a split in applicable_splits to a newly wrapped one, and
\* a name of applicable_splits that the input lacks adds no key.
C18_PassThrough ==
  (Produced /\ fields["A"].kind \in PassKinds) =>
    /\ MapKeys(Artifact) = MapKeys(Input)
    /\ Len(Artifact.v) = Len(Input.v)
    /\ \A key \in MapKeys(Input) :
         IF key \in fields["A"].applicable_splits
         THEN /\ MapGet(Artifact, key) = Wrapped(fields["A"].kind, MapGet(Input, key))
              /\ MapGet(Artifact, key) # MapGet(Input, key)
         ELSE MapGet(Artifact, key) = MapGet(Input, key)

\* C18 witness: of the splits x, y and "" the applicable x is wrapped, the
\* others are passed through, and the applicable z, which the input lacks,
\* adds nothing.
C18_Witness ==
  /\ Produced /\ fields["A"].kind = "IteratorView"
  /\ fields["A"].applicable_splits = {"x", "z"}
  /\ MapKeys(Input) = {"x", "y", ""}
  /\ MapGet(Artifact, "x") = "view(a)"
  /\ MapGet(Artifact, "y") = "b"

\* C19: the artifact of a FeatureEncodedIteratorConstructable has exactly
\* the keys of the feature-encoded iterator mapping that are listed in
\* applicable_splits, with that mapping's iterators; the other splits are
\* absent, so with no applicable split the artifact is the empty mapping.
C19_FeatureEncodingDrops ==
  (Produced /\ fields["A"].kind = "FeatureEncoded") =>
    /\ MapKeys(Artifact) = MapKeys(FeatureEncodedIterators) \cap fields["A"].applicable_splits
    /\ Len(Artifact.v) = Cardinality(MapKeys(Artifact))
    /\ \A key \in MapKeys(Artifact) : MapGet(Artifact, key) = MapGet(FeatureEncodedIterators, key)
    /\ fields["A"].applicable_splits = {} => Artifact = Map(<<>>)

\* C19 witness: the splits x and y were encoded, only x is applicable: the
\* artifact holds the encoded x and nothing else.
C19_Witness ==
  /\ Produced /\ fields["A"].kind = "FeatureEncoded"
  /\ fields["A"].applicable_splits = {"x", "z"}
  /\ MapKeys(Input) = {"x", "y"}
  /\ MapKeys(FeatureEncodedIterators) = {"x", "y"}
  /\ Artifact = Map(<<Entry("x", "encoded(a)")>>)

====
